---- MODULE Spec2Model ----
(***************************************************************************)
(* A state-machine model of bloom.cpp: the checkpoint loader               *)
(* (bloom_model_load / bloom_load / bloom_free), the forward pass          *)
(* (bloom_eval, as far as it touches the key/value memory and the scratch  *)
(* buffer), and the two generation loops (inference behind bloom_run,      *)
(* chat behind bloom_chat).                                                *)
(*                                                                         *)
(* Tensor mathematics is abstracted: a cell of memory_k / memory_v holds   *)
(* the stamp of the forward pass that wrote it, and the logits vector is   *)
(* either empty or filled.  The sampler and the tokenizer live in utils.h  *)
(* / utils.cpp, which are not part of src/; they are modelled from the     *)
(* specification (sections 4.3 and 3).                                     *)
(***************************************************************************)
EXTENDS Integers, Sequences, FiniteSets, TLC

(***************************************************************************)
(* Bounds of the model (hyperparameters and caller inputs are scaled down) *)
(***************************************************************************)
\* hparams.n_ctx, the caller-supplied context length
n_ctx == 4
\* hparams.n_layer
n_layer == 2
\* hparams.n_embd: floats per cache position
n_embd == 1
\* gpt_params.repeat_last_n: length of the recent-token history
repeat_last_n == 2
\* calls of bloom_run / bloom_chat made on one handle in a behaviour
MaxCalls == 2
\* largest value of time(NULL), counted from the first call
MaxClock == 1
\* positions past n_ctx a forward pass may run over before the process is
\* taken to have died (caps the loops whose bound wrapped around)
MaxOverrun == 1
\* forward passes issued in a behaviour of SpecEval (the probe included)
MaxFwd == 3
\* complete or cut tensor records in a checkpoint file
MaxRecs == 2

(***************************************************************************)
(* Program constants                                                       *)
(***************************************************************************)
\* hparams.n_vocab; ids are 0 .. n_vocab-1
n_vocab == 3
\* the end-of-text id tested by inference and chat
EOS == 2
\* static size_t buf_size = 512ul*10000*10000, scaled to the unit in which
\* mem_per_token is counted
buf_size0 == 2
\* modulus of size_t arithmetic (2^64 in the build; any value far above
\* every int the loops can reach behaves the same)
SIZE_MOD == 1073741824
\* the value of gpt_params::seed after default construction (utils.h)
gpt_params_seed == -1

Vocab == 0 .. (n_vocab - 1)

Min(a, b) == IF a < b THEN a ELSE b
Max(a, b) == IF a > b THEN a ELSE b

\* conversion of a (possibly negative) int to size_t
SizeT(x) == x % SIZE_MOD

(***************************************************************************)
(* Vocabulary and tokenizer (utils.h, modelled from the specification)     *)
(***************************************************************************)
\* vocab.id_to_token
id_to_token(id) ==
    CASE id = 0 -> <<"u", "u">>
      [] id = 1 -> <<"a">>
      [] id = 2 -> <<"e">>
      [] OTHER  -> <<"b">>

IsPrefix(s, t) == Len(s) <= Len(t) /\ SubSeq(t, 1, Len(s)) = s

\* ids whose string is a prefix of text
Matches(text) == { id \in Vocab : IsPrefix(id_to_token(id), text) }

\* the longest match, ties to the smallest id
Longest(text) ==
    CHOOSE id \in Matches(text) :
        \A o \in Matches(text) :
            \/ Len(id_to_token(o)) < Len(id_to_token(id))
            \/ Len(id_to_token(o)) = Len(id_to_token(id)) /\ id <= o

RECURSIVE bloom_tokenize(_)
\* greedy longest-prefix tokenization; a character no token starts with is
\* skipped
bloom_tokenize(text) ==
    IF text = <<>> THEN <<>>
    ELSE IF Matches(text) = {}
         THEN bloom_tokenize(Tail(text))
         ELSE <<Longest(text)>>
              \o bloom_tokenize(SubSeq(text, Len(id_to_token(Longest(text))) + 1, Len(text)))

RECURSIVE Words(_)
\* the strings of a token sequence, concatenated (what strcpy writes to dst)
Words(toks) ==
    IF toks = <<>> THEN <<>> ELSE id_to_token(Head(toks)) \o Words(Tail(toks))

\* erase(begin) then push_back(id) on the recent-token history
Push(hist, id) == Tail(hist) \o <<id>>

Back(s) == s[Len(s)]

(***************************************************************************)
(* State                                                                   *)
(***************************************************************************)
VARIABLES
    \* ChatContext (the session handle)
    mem_per_token,   \* ctx->mem_per_token
    n_chars,         \* ctx->n_chars
    n_past,          \* ctx->n_past
    last_n_tokens,   \* ctx->last_n_tokens
    \* bloom_model: the two cache tensors, as flat arrays of floats
    memory_k,
    memory_v,
    \* function-local statics of bloom_eval (one per process)
    buf_size,
    buf,
    \* the environment: time(NULL)
    clock,
    \* the bloom_run / bloom_chat call in flight (or the last one finished)
    call,
    \* history variables
    calls,           \* calls started on the handle
    nfwd,            \* forward passes issued so far
    issued,          \* the forward pass issued last
    fwd,             \* per caller, the last two forward passes issued
    prevRun,         \* the bloom_run call finished before the current one
    prevChat,        \* the bloom_chat call finished before the current one
    \* the loader
    ld,
    \* a second session of the same process
    ctx0,            \* per handle, the forward pass between ggml_init(params)
                     \* and ggml_free(ctx0)
    peer             \* memory_k, memory_v and mem_per_token of the second handle

vars == << mem_per_token, n_chars, n_past, last_n_tokens, memory_k, memory_v,
           buf_size, buf, clock, call, calls, nfwd, issued, fwd, prevRun,
           prevChat, ld, ctx0, peer >>

session == << mem_per_token, n_chars, n_past, last_n_tokens >>
cache   == << memory_k, memory_v >>
scratch == << buf_size, buf, ctx0, peer >>

None == [none |-> TRUE]

(***************************************************************************)
(* bloom_eval: scratch buffer and key/value store                          *)
(***************************************************************************)
CacheSize == n_embd * n_layer * n_ctx
CacheIdx  == 0 .. (CacheSize - 1)

\* mem_per_token > 0 && mem_per_token*N > buf_size
NeedRealloc(mpt, N) == mpt > 0 /\ mpt * N > buf_size

\* buf_size_new = 1.1*(mem_per_token*N)
NewBufSize(mpt, N) == (11 * mpt * N) \div 10

\* a view that starts at the head of the layer whatever the position
ViewOffsetHead(il, p) == n_embd * (il * n_ctx)

\* first element of the view k / v of layer il for a call at position p
ViewOffset(il, p) == n_embd * (il * n_ctx + p)

\* elements of memory_k (memory_v) the cpy nodes of one call write
StoreRange(p, N) ==
    IF N >= 1
    THEN UNION { ViewOffset(il, p) .. (ViewOffset(il, p) + N * n_embd - 1) :
                 il \in 0 .. (n_layer - 1) }
    ELSE {}

\* the tensor after ggml_graph_compute has run the cpy nodes
StoreKV(mem, p, N, stamp) ==
    [ idx \in CacheIdx |-> IF idx \in StoreRange(p, N) THEN stamp ELSE mem[idx] ]

\* the views reach past the end of the tensor
Overrun(p, N) == \E idx \in StoreRange(p, N) : idx >= CacheSize

\* results bloom_eval can return for N tokens: false only from the failed
\* realloc
EvalResults(mpt, N) == IF NeedRealloc(mpt, N) THEN {TRUE, FALSE} ELSE {TRUE}

\* after a store past the tensor the process either dies or runs on
Fates(p, N) ==
    IF ~Overrun(p, N) THEN {"alive"}
    ELSE IF p + N <= n_ctx + MaxOverrun THEN {"alive", "dead"} ELSE {"dead"}

\* a position that moves on by one whatever the length of the forward pass
AdvanceOne(np, N) == np + 1

\* n_past += embd.size() (inference), n_past += n and ++n_past (chat)
\* behind a forward pass of N tokens that returned true
Advance(np, N) == np + N

\* entry appended to a caller's list of forward passes (the last two are kept)
Log(list, e) == IF Len(list) < 2 THEN Append(list, e) ELSE <<list[2], e>>

\* a forward pass that runs its graph, and with it the stores into the cache,
\* in front of the realloc of the scratch block
StoreThenRealloc(who, mpt, p, N, res) ==
    /\ res \in EvalResults(mpt, N)
    /\ buf_size' = IF NeedRealloc(mpt, N) THEN NewBufSize(mpt, N) ELSE buf_size
    /\ buf' = IF NeedRealloc(mpt, N) THEN (IF res THEN "heap" ELSE "null") ELSE buf
    /\ nfwd' = nfwd + 1
    /\ memory_k' = StoreKV(memory_k, p, N, <<who, nfwd + 1>>)
    /\ memory_v' = StoreKV(memory_v, p, N, <<who, nfwd + 1>>)
    /\ issued' = [who |-> who, pos |-> p, n |-> N, ok |-> res]
    /\ fwd' = [fwd EXCEPT ![who] = Log(@, [pos |-> p, n |-> N, ok |-> res])]
    /\ UNCHANGED << ctx0, peer >>

\* one call bloom_eval(model, n_threads, p, embd, logits, mpt) by who,
\* returning res
bloom_eval(who, mpt, p, N, res) ==
    /\ res \in EvalResults(mpt, N)
    /\ buf_size' = IF NeedRealloc(mpt, N) THEN NewBufSize(mpt, N) ELSE buf_size
    /\ buf' = IF NeedRealloc(mpt, N) THEN (IF res THEN "heap" ELSE "null") ELSE buf
    /\ nfwd' = nfwd + 1
    /\ memory_k' = IF res THEN StoreKV(memory_k, p, N, <<who, nfwd + 1>>) ELSE memory_k
    /\ memory_v' = IF res THEN StoreKV(memory_v, p, N, <<who, nfwd + 1>>) ELSE memory_v
    /\ issued' = [who |-> who, pos |-> p, n |-> N, ok |-> res]
    /\ fwd' = [fwd EXCEPT ![who] = Log(@, [pos |-> p, n |-> N, ok |-> res])]
    /\ UNCHANGED << ctx0, peer >>

NoEval == UNCHANGED << memory_k, memory_v, buf_size, buf, nfwd, issued, ctx0, peer >>

(***************************************************************************)
(* The call record                                                         *)
(***************************************************************************)
Zeros == [ k \in 1 .. repeat_last_n |-> 0 ]

IdleCall ==
    [ fn |-> "none", pc |-> "idle",
      text |-> <<>>, seed |-> 0, n_batch |-> 0, budget |-> 0,  \* arguments
      rng |-> 0,              \* params.seed, the seed of std::mt19937
      prompt |-> <<>>,        \* params.prompt
      embd_inp |-> <<>>, embd |-> <<>>, i |-> 0,
      n_past |-> 0,           \* inference: its local n_past
      n_past_init |-> 0, n_input |-> 0,
      n_chars_init |-> 0,     \* ctx->n_chars when bloom_chat was called
      n_predict |-> 0,        \* params.n_predict after the clamp
      logits |-> FALSE,       \* logits.size() > 0
      hist |-> Zeros,         \* inference: its local last_n_tokens
      sampled |-> <<>>,       \* ids returned by the sampler in this call
      dst |-> <<>>,           \* the caller's output buffer
      ret |-> 0,              \* value returned by bloom_run / bloom_chat
      failed |-> FALSE,       \* a forward pass of this call returned false
      dirty |-> FALSE,        \* ... of this or of an earlier call on the handle
      stop |-> "" ]           \* why the loop ended

Idle == call.pc \in {"idle", "done"}

\* params.seed = params.seed < 0 ? time(NULL) : seed
ParamsSeed(seed) == IF gpt_params_seed < 0 THEN clock ELSE seed

\* what is kept of a finished call
Summary(c) ==
    [ text |-> c.text, seed |-> c.seed, n_batch |-> c.n_batch, budget |-> c.budget,
      rng |-> c.rng, embd_inp |-> c.embd_inp, sampled |-> c.sampled,
      dst |-> c.dst, ret |-> c.ret, failed |-> c.failed, dirty |-> c.dirty,
      stop |-> c.stop ]

Remember ==
    /\ prevRun'  = IF call.fn = "run"  /\ call.pc = "done" THEN Summary(call) ELSE prevRun
    /\ prevChat' = IF call.fn = "chat" /\ call.pc = "done" THEN Summary(call) ELSE prevChat

(***************************************************************************)
(* The sampler (utils.cpp, modelled from section 4.3 of the specification) *)
(***************************************************************************)
\* The ids bloom_sample_top_p can return.  The draw is a function of the
\* logits, the recent tokens and the generator state: a bloom_run call that
\* has the generator seed and the prompt of the previous bloom_run call, and
\* has drawn the same ids so far, draws again what that call drew.  Nothing
\* else is known of the weights, so any other draw can give any id.
bloom_sample_top_p(c) ==
    IF /\ prevRun # None
       /\ c.logits
       /\ prevRun.rng = c.rng
       /\ prevRun.embd_inp = c.embd_inp
       /\ Len(c.sampled) < Len(prevRun.sampled)
       /\ c.sampled = SubSeq(prevRun.sampled, 1, Len(c.sampled))
    THEN { prevRun.sampled[Len(c.sampled) + 1] }
    ELSE Vocab

\* reading logits.data() + (logits.size() - n_vocab) of an empty vector is
\* undefined: any id comes out, or the process dies (written -1)
SampleEmpty == Vocab \cup {-1}

(***************************************************************************)
(* inference (behind bloom_run)                                            *)
(***************************************************************************)
\* i < embd_inp.size() + params.n_predict, compared as size_t
LoopCond(i, P, np) == SizeT(i) < SizeT(P + np)

\* the prompt tokens one pass of the else-branch moves into embd: the loop
\* pushes first and breaks once embd.size() > params.n_batch
BatchLen(i, P, nb) == Min(P - i, SizeT(nb) + 1)

bloom_run(text, seed, nb, B) ==
    /\ Idle
    /\ calls' = calls + 1
    /\ Remember
    /\ LET inp == bloom_tokenize(text)
           np  == Min(B, n_ctx - Len(inp))
           go  == LoopCond(0, Len(inp), np)
       IN  call' = [ IdleCall EXCEPT
                       !.fn = "run", !.pc = IF go THEN "loop" ELSE "done",
                       !.text = text, !.seed = seed, !.n_batch = nb, !.budget = B,
                       !.rng = ParamsSeed(seed), !.prompt = text,
                       !.embd_inp = inp, !.n_predict = np,
                       !.dirty = call.dirty,
                       !.stop = IF go THEN "" ELSE "bound" ]
    /\ fwd' = [fwd EXCEPT !.run = <<>>]
    /\ NoEval
    /\ UNCHANGED << session, clock, ld >>

\* the rest of a loop pass once the forward pass (if any) has returned true
RunStep(c, id) ==
    LET P    == Len(c.embd_inp)
        take == SubSeq(c.embd_inp, c.i + 1, c.i + BatchLen(c.i, P, c.n_batch))
        gen  == c.i >= P
        embd1 == IF gen THEN <<id>> ELSE take
        i1   == IF gen THEN c.i ELSE c.i + Len(take) - 1
        hist1 == IF gen THEN Push(c.hist, id)
                 ELSE SubSeq(c.hist \o take, Len(take) + 1, Len(take) + repeat_last_n)
        eos  == Back(embd1) = EOS
        more == LoopCond(i1 + 1, P, c.n_predict)
    IN  [ c EXCEPT
            !.embd = embd1,
            !.hist = hist1,
            !.sampled = IF gen THEN Append(@, id) ELSE @,
            !.dst = @ \o Words(embd1),
            !.i = IF eos THEN i1 ELSE i1 + 1,
            !.pc = IF eos \/ ~more THEN "done" ELSE "loop",
            !.ret = 0,
            !.stop = IF eos THEN (IF gen THEN "eos" ELSE "eos_prompt")
                     ELSE IF ~more THEN "bound" ELSE "" ]

\* one pass of the for loop of inference
inference ==
    /\ call.fn = "run" /\ call.pc = "loop"
    /\ LET N  == Len(call.embd)
           c1 == [ call EXCEPT !.n_past = Advance(@, N), !.embd = <<>>,
                               !.logits = @ \/ N > 0 ]
           gen == call.i >= Len(call.embd_inp)
       IN  \E res \in BOOLEAN, fate \in {"alive", "dead"}, id \in Vocab \cup {-1} :
             /\ IF N > 0
                THEN /\ bloom_eval("run", mem_per_token, call.n_past, N, res)
                     /\ fate \in Fates(call.n_past, N)
                ELSE /\ res /\ fate = "alive"
                     /\ NoEval /\ UNCHANGED fwd
             /\ IF res /\ fate = "alive" /\ gen
                THEN id \in (IF c1.logits THEN bloom_sample_top_p(c1) ELSE SampleEmpty)
                ELSE id = 0
             /\ call' = IF ~res
                        THEN [ call EXCEPT !.pc = "done", !.ret = 1, !.failed = TRUE, !.dirty = TRUE,
                                           !.stop = "error" ]
                        ELSE IF fate = "dead" \/ id = -1
                        THEN [ c1 EXCEPT !.pc = "ub", !.stop = "ub" ]
                        ELSE RunStep(c1, id)
    /\ UNCHANGED << session, clock, calls, prevRun, prevChat, ld >>

(***************************************************************************)
(* chat (behind bloom_chat)                                                *)
(***************************************************************************)
\* values a read of embd_inp past its end can give
Junk == {-1, 1}

\* the whole text, as if nothing of it had been consumed
SuffixesWhole(text, nc) == { text }

\* std::string(prompt + ctx->n_chars): the text from offset n_chars on; past
\* the terminating NUL the read is undefined and anything may come out
Suffixes(text, nc) ==
    IF nc <= Len(text) THEN { SubSeq(text, nc + 1, Len(text)) }
    ELSE { <<>>, <<"a">> }

\* the input of chat: the tokens of the new text, behind the newest token of
\* the history when that is > 0
ChatInput(prompt, hist) ==
    LET toks == IF Len(prompt) > 0 THEN bloom_tokenize(prompt) ELSE <<>>
    IN  IF Back(hist) > 0 THEN <<Back(hist)>> \o toks ELSE toks

\* n = std::min((size_t) params.n_batch, n_input - n_past)
IngestLen(nb, n_input, np) == Min(SizeT(nb), n_input - np)

\* embd_inp[k] (k counted from 0); past the end the read is undefined and
\* gives junk
ReadInp(inp, k, junk) == IF k < Len(inp) THEN inp[k + 1] ELSE junk

RECURSIVE PushRead(_, _, _, _, _, _)
\* for (i = 0; i < n; ++i) { erase(begin); push_back(embd_inp[np + i]); }
\* where np is n_past after n_past += n
PushRead(hist, inp, np, n, junk, i) ==
    IF i >= n THEN hist
    ELSE PushRead(Push(hist, ReadInp(inp, np + i, junk)), inp, np, n, junk, i + 1)

\* n_past >= n_input + params.n_predict - 1, compared as size_t
ChatStop(np, n_input, n_predict) == SizeT(np) >= SizeT(n_input + n_predict - 1)

\* what bloom_chat returns when chat has returned r
ChatRet(r) == IF r < 0 THEN -1 ELSE 0

\* bloom_chat up to the first loop of chat
bloom_chat(text, seed, nb, B) ==
    /\ Idle
    /\ calls' = calls + 1
    /\ Remember
    /\ \E prompt \in Suffixes(text, n_chars) :
         LET inp == ChatInput(prompt, last_n_tokens)
             n_input == n_past + Len(inp)
             np == Min(B, n_ctx - n_input)
             ingest == n_past < n_input
         IN  /\ call' = [ IdleCall EXCEPT
                            !.fn = "chat", !.pc = IF ingest THEN "ingest" ELSE "decode",
                            !.text = text, !.seed = seed, !.n_batch = nb, !.budget = B,
                            !.rng = ParamsSeed(seed), !.prompt = prompt,
                            !.embd_inp = inp, !.n_past_init = n_past,
                            !.n_chars_init = n_chars,
                            !.n_input = n_input, !.n_predict = np,
                            !.dirty = call.dirty,
                            !.dst = text ]
             /\ n_chars' = IF ingest THEN n_chars ELSE n_chars + Len(prompt)
    /\ NoEval
    /\ UNCHANGED << mem_per_token, n_past, last_n_tokens, clock, fwd, ld >>

\* one pass of the loop "while (n_past < n_input)" and, when it was the last,
\* n_chars += params.prompt.size()
chat_ingest ==
    /\ call.fn = "chat" /\ call.pc = "ingest"
    /\ LET n    == IngestLen(call.n_batch, call.n_input, n_past)
           np1  == Advance(n_past, n)
       IN  \E res \in BOOLEAN, fate \in Fates(n_past, n), junk \in Junk :
             /\ bloom_eval("chat", mem_per_token, n_past, n, res)
             /\ ~res => junk = 1 /\ fate = "alive"
             /\ IF ~res
                THEN \* chat returns 1, which bloom_chat does not take for a failure
                     /\ call' = [ call EXCEPT !.pc = "done", !.ret = ChatRet(1),
                                              !.failed = TRUE, !.dirty = TRUE,
                                              !.stop = "error" ]
                     /\ UNCHANGED << n_past, last_n_tokens, n_chars >>
                ELSE /\ n_past' = np1
                     /\ last_n_tokens' =
                            PushRead(last_n_tokens, call.embd_inp, np1, n, junk, 0)
                     /\ n_chars' = IF np1 < call.n_input \/ fate = "dead" THEN n_chars
                                   ELSE n_chars + Len(call.prompt)
                     /\ call' = [ call EXCEPT
                                    !.logits = TRUE,
                                    !.pc = IF fate = "dead" THEN "ub"
                                           ELSE IF np1 < call.n_input THEN "ingest"
                                           ELSE "decode",
                                    !.stop = IF fate = "dead" THEN "ub" ELSE "" ]
    /\ UNCHANGED << mem_per_token, clock, calls, prevRun, prevChat, ld >>

\* one pass of the loop "while (1)": sample, test for the end, evaluate
chat_decode ==
    /\ call.fn = "chat" /\ call.pc = "decode"
    /\ \E id \in (IF call.logits THEN Vocab ELSE SampleEmpty) :
         IF id = -1
         THEN /\ call' = [ call EXCEPT !.pc = "ub", !.stop = "ub" ]
              /\ NoEval
              /\ UNCHANGED << n_past, last_n_tokens, n_chars, fwd >>
         ELSE LET c1 == [ call EXCEPT !.sampled = Append(@, id),
                                      !.dst = @ \o id_to_token(id) ]
              IN  /\ last_n_tokens' = Push(last_n_tokens, id)
                  /\ n_chars' = n_chars + Len(id_to_token(id))
                  /\ IF id = EOS \/ ChatStop(n_past, call.n_input, call.n_predict)
                     THEN \* chat returns n_chars
                          /\ call' = [ c1 EXCEPT !.pc = "done", !.ret = ChatRet(n_chars'),
                                                 !.stop = IF id = EOS THEN "eos" ELSE "bound" ]
                          /\ NoEval
                          /\ UNCHANGED << n_past, fwd >>
                     ELSE \E res \in BOOLEAN, fate \in Fates(n_past, 1) :
                            /\ bloom_eval("chat", mem_per_token, n_past, 1, res)
                            /\ ~res => fate = "alive"
                            /\ n_past' = IF res THEN Advance(n_past, 1) ELSE n_past
                            /\ call' =
                                 IF ~res
                                 THEN \* chat returns -1: bloom_chat cuts dst back to the
                                      \* submitted text and returns -1
                                      [ c1 EXCEPT !.pc = "done", !.ret = ChatRet(-1),
                                                  !.failed = TRUE, !.dirty = TRUE,
                                                  !.dst = call.text, !.stop = "error" ]
                                 ELSE IF fate = "dead"
                                 THEN [ c1 EXCEPT !.pc = "ub", !.stop = "ub" ]
                                 ELSE c1
    /\ UNCHANGED << mem_per_token, clock, calls, prevRun, prevChat, ld >>

\* time(NULL) advances between two calls
Tick ==
    /\ Idle
    /\ calls >= 1
    /\ clock < MaxClock
    /\ clock' = clock + 1
    /\ UNCHANGED << session, cache, scratch, call, calls, nfwd, issued, fwd,
                    prevRun, prevChat, ld >>

(***************************************************************************)
(* A loaded session and the calls made on it                               *)
(***************************************************************************)
\* the probe bloom_eval(ctx->model, n_threads, 0, { 0, 1, 2, 3 }, ...) of
\* bloom_load has this many tokens
ProbeLen == 4

\* values ggml_used_mem(ctx0)/N of the probe can take, in the unit of
\* buf_size0.  With 3 the first forward pass of a session needs the realloc,
\* which may fail or succeed; once it has succeeded the session runs as one
\* whose buffer was large enough from the start.
MemPerToken == {3}

\* a cache cell no forward pass has written
Unset == <<"unset", 0>>

\* the forward passes issued by each caller: bloom_load (its probe),
\* inference, chat, and any other caller of bloom_eval
NoFwd == [ run |-> <<>>, chat |-> <<>>, load |-> <<>>, any |-> <<>> ]

\* names in model.tensors (6 + 12*n_layer of them in the program, two here)
Names == {"t1", "t2"}

\* a tensor record of the file, as far as the loader tells records apart
Records ==
    [ name  : Names \cup {"x"},              \* "x": a name not in model.tensors
      ext   : {"ok", "permuted", "wrong"},   \* extents: those of the tensor; the
                                             \* same count in another shape;
                                             \* another count
      ftype : {"same", "other", "unknown"} ] \* the code of the tensor's type;
                                             \* of another type; no known code
GoodRec(n) == [ name |-> n, ext |-> "ok", ftype |-> "same" ]

\* sequences of at most len records that pass every test
GoodSeqs(len) == UNION { [ 1 .. k -> { GoodRec(n) : n \in Names } ] : k \in 0 .. len }

\* how a file ends: at a record boundary, inside the 12 bytes of a record
\* header, or inside the extents, the name or the data of its last record
Ends == {"boundary", "header", "dims", "name", "data"}

\* the part of a file behind the vocabulary
Bodies ==
    { [ recs |-> pre, end |-> e ] :
        pre \in GoodSeqs(MaxRecs), e \in {"boundary", "header"} }
    \cup
    { [ recs |-> pre \o << r >>, end |-> e ] :
        pre \in GoodSeqs(MaxRecs - 1), r \in Records, e \in Ends }
GoodBody == [ recs |-> << GoodRec("t1"), GoodRec("t2") >>, end |-> "boundary" ]

\* the part of a file up to the end of the vocabulary
Headers ==
    [ open  : BOOLEAN,                  \* std::ifstream(fname) opens
      magic : {"ok", "bad", "short"},   \* first four bytes: the magic, other
                                        \* bytes, or fewer than four bytes
      f16   : {0, 1, 4},                \* hparams.f16
      heads : {"divides", "not", "zero"},  \* n_head divides n_embd, does
                                           \* not divide it, is 0
      vocab : {"ok", "cut"} ]           \* the file ends inside the vocabulary
GoodHeader == [ open |-> TRUE, magic |-> "ok", f16 |-> 1, heads |-> "divides",
                vocab |-> "ok" ]

File(h, b) ==
    [ open |-> h.open, magic |-> h.magic, f16 |-> h.f16, heads |-> h.heads,
      vocab |-> h.vocab, recs |-> b.recs, end |-> b.end ]

\* a checkpoint file, as far as the loader tells files apart
Files ==
    { File(h, GoodBody) : h \in Headers } \cup { File(GoodHeader, b) : b \in Bodies }
GoodFile == File(GoodHeader, GoodBody)

\* the loader before bloom_load is called
NoLoad == [ pc |-> "start", file |-> GoodFile, arena |-> "none", obj |-> "none",
            stream |-> "good",               \* fin: good, or failed for good
            k |-> 0,                         \* records consumed
            got |-> [ n \in Names |-> 0 ],   \* reads into the data of a tensor
            copied |-> {},                   \* the records those reads served
            partial |-> {},                  \* tensors whose read came short
            err |-> "",                      \* the message printed on failure
            trunc |-> FALSE,                 \* a forward pass ran with n_embd/n_head
                                             \* rounded down
            res |-> FALSE, ret |-> "" ]

\* the loader once bloom_load has returned the handle for GoodFile
LoadedLd == [ NoLoad EXCEPT !.pc = "loaded", !.arena = "live", !.obj = "live",
                            !.k = 2, !.got = [ n \in Names |-> 1 ],
                            !.copied = {1, 2},
                            !.res = TRUE, !.ret = "handle" ]

\* the session handles of the process
Handles == {"h1", "h2"}

\* no forward pass is between ggml_init(params) and ggml_free(ctx0)
OutPass == [ pc |-> "out", mem_buffer |-> "null", mem_size |-> 0, pos |-> 0,
             n |-> 0, stamp |-> 0, torn |-> FALSE ]
NoPass == [ h \in Handles |-> OutPass ]

\* the second handle before and after its bloom_load
NoPeer ==
    [ memory_k |-> [ idx \in CacheIdx |-> Unset ],
      memory_v |-> [ idx \in CacheIdx |-> Unset ],
      mem_per_token |-> 0 ]
LoadedPeer(mpt) ==
    [ memory_k |-> StoreKV([ idx \in CacheIdx |-> Unset ], 0, ProbeLen, <<"load", 1>>),
      memory_v |-> StoreKV([ idx \in CacheIdx |-> Unset ], 0, ProbeLen, <<"load", 1>>),
      mem_per_token |-> mpt ]

\* the state bloom_load leaves behind when it returns a handle
Loaded(mpt) ==
    /\ mem_per_token = mpt
    /\ n_chars = 0
    /\ n_past = 0
    /\ last_n_tokens = Zeros
    /\ memory_k = StoreKV([ idx \in CacheIdx |-> Unset ], 0, ProbeLen, <<"load", 1>>)
    /\ memory_v = StoreKV([ idx \in CacheIdx |-> Unset ], 0, ProbeLen, <<"load", 1>>)
    /\ buf_size = buf_size0
    /\ buf = "heap"
    /\ nfwd = 1
    /\ issued = [who |-> "load", pos |-> 0, n |-> ProbeLen, ok |-> TRUE]
    /\ fwd = [ NoFwd EXCEPT !.load = << [pos |-> 0, n |-> ProbeLen, ok |-> TRUE] >> ]

\* the bloom_chat call made last
LastChat == IF call.fn = "chat" THEN Summary(call) ELSE prevChat

\* conversation texts a caller submits: new text behind what the last
\* bloom_chat call left in the output buffer
ChatTexts(new) ==
    LET base == IF LastChat = None THEN <<>> ELSE LastChat.dst
    IN  { base \o t : t \in new }

InitGen ==
    /\ \E mpt \in MemPerToken : Loaded(mpt)
    /\ clock = 0
    /\ call = IdleCall
    /\ calls = 0
    /\ prevRun = None
    /\ prevChat = None
    /\ ld = LoadedLd
    /\ ctx0 = NoPass
    /\ peer = NoPeer

(***************************************************************************)
(* SpecChat: bloom_chat calls on one handle                                *)
(***************************************************************************)
Seeds       == {0, 1}
ChatNew     == { <<"a">>, <<"a", "a">> }
ChatBatches == {2}
ChatBudgets == {0, 2}

NextChat ==
    \/ /\ calls < MaxCalls
       /\ \E text \in ChatTexts(ChatNew), nb \in ChatBatches, B \in ChatBudgets :
            bloom_chat(text, 0, nb, B)
    \/ chat_ingest
    \/ chat_decode

SpecChat == InitGen /\ [][NextChat]_vars

(***************************************************************************)
(* SpecRun: one bloom_run call on a fresh handle                           *)
(***************************************************************************)
RunTexts   == { <<>>, <<"a">>, <<"a", "e">>, <<"a", "a", "a">>,
                <<"a", "a", "a", "a", "a", "a">> }
RunBatches == {1, 2}
RunBudgets == {-2, 0, 2, 9}

NextRun ==
    \/ /\ calls = 0
       /\ \E text \in RunTexts, seed \in Seeds, nb \in RunBatches, B \in RunBudgets :
            bloom_run(text, seed, nb, B)
    \/ inference

SpecRun == InitGen /\ [][NextRun]_vars

(***************************************************************************)
(* Claims about bloom_run, checked under SpecRun                           *)
(***************************************************************************)
\* the number of tokens a bloom_run call may sample:
\* max(0, min(predictBudget, contextLength - promptLength))
RunAllowance(c) == Max(0, Min(c.budget, n_ctx - Len(c.embd_inp)))

\* C5: a bloom_run call in which no forward pass failed ends with fewer
\* sampled tokens than its budget allows only when the token it sampled last
\* is the end-of-text id and that token is what ended the loop (so a prompt
\* token equal to the end-of-text id never ends it), and whenever a token has
\* been sampled every prompt token has been evaluated.
C5_StopsOnlyOnSampledEos ==
    call.fn = "run" =>
        /\ ( call.pc = "done" /\ ~call.failed /\ Len(call.sampled) < RunAllowance(call) )
             => ( call.sampled # <<>> /\ Back(call.sampled) = EOS /\ call.stop = "eos" )
        /\ call.sampled # <<>> => call.n_past >= Len(call.embd_inp)

\* C6: a bloom_run call never samples more than
\* max(0, min(predictBudget, contextLength - promptLength)) tokens, and when it
\* returns without a failed forward pass, with no end-of-text id sampled and a
\* prompt of at least one token, it has sampled exactly that many.
C6_RunSamplesWithinBudget ==
    call.fn = "run" =>
        /\ Len(call.sampled) <= RunAllowance(call)
        /\ ( /\ call.pc = "done" /\ ~call.failed
             /\ Len(call.embd_inp) >= 1
             /\ \A k \in 1 .. Len(call.sampled) : call.sampled[k] # EOS )
             => Len(call.sampled) = RunAllowance(call)

(***************************************************************************)
(* Claims about bloom_chat, checked under SpecChat                         *)
(***************************************************************************)
\* elements of the cache tensor that belong to layer il
LayerRegion(il) == ViewOffset(il, 0) .. (ViewOffset(il + 1, 0) - 1)

\* C1: every forward pass issued by bloom_run or bloom_chat has
\* cachePosition + inputLength <= contextLength, so what it stores for layer
\* il lies inside the region of layer il.
C1_ForwardWithinContext ==
    issued.who \in {"run", "chat"} =>
        /\ issued.pos + issued.n <= n_ctx
        /\ \A il \in 0 .. (n_layer - 1) :
             ViewOffset(il, issued.pos) .. (ViewOffset(il, issued.pos) + issued.n * n_embd - 1)
                 \subseteq LayerRegion(il)

\* the value bloom_run and bloom_chat return when nothing failed
SuccessRet == 0

\* C3: a call in which a forward pass failed returns a value that differs
\* from the value returned on success.
C3_FailureReported ==
    ( call.pc = "done" /\ call.failed ) => call.ret # SuccessRet

\* the number of tokens a bloom_chat call may sample:
\* max(0, min(predictBudget, contextLength - n_input))
ChatAllowance(c) == Max(0, Min(c.budget, n_ctx - c.n_input))

\* C7: a bloom_chat call samples at most
\* max(0, min(predictBudget, contextLength - n_input)) tokens.
C7_ChatSamplesWithinBudget ==
    call.fn = "chat" => Len(call.sampled) <= ChatAllowance(call)

\* the text of the current call behind the first k characters
After(k) == SubSeq(call.text, k + 1, Len(call.text))

Carry(ids) == IF ids # <<>> /\ Back(ids) > 0 THEN << Back(ids) >> ELSE <<>>

MixTexts   == { <<"a", "a", "a">> }
MixNew     == { <<"a", "a">> }
MixBatches == {1, 2}
MixBudgets == {2}

Next ==
    \/ /\ calls < MaxCalls
       /\ \E text \in MixTexts, nb \in MixBatches, B \in MixBudgets :
            bloom_run(text, 0, nb, B)
    \/ inference
    \/ /\ calls < MaxCalls
       /\ \E text \in ChatTexts(MixNew), nb \in MixBatches, B \in MixBudgets :
            bloom_chat(text, 0, nb, B)
    \/ chat_ingest
    \/ chat_decode

Spec == InitGen /\ [][Next]_vars

\* the forward passes of one stream: those of the bloom_run call in flight,
\* those of all bloom_chat calls on the handle
Streams == {"run", "chat"}

\* C8 as stated: in each stream the first forward pass is at position 0 and
\* every later one is at the position of the one before plus its length.
C8_PositionsContiguous ==
    \A who \in Streams :
        /\ Len(fwd[who]) = 1 => fwd[who][1].pos = 0
        /\ Len(fwd[who]) = 2 => fwd[who][2].pos = fwd[who][1].pos + fwd[who][1].n

\* C8 as amended: in each stream the first forward pass is at position 0,
\* every forward pass has at least one token, and a later one is at the
\* position of the one before plus its length when that one returned true,
\* and at the position of the one before when that one returned false.
C8_PositionsFollowSuccess ==
    \A who \in Streams :
        /\ Len(fwd[who]) = 1 => fwd[who][1].pos = 0
        /\ \A k \in 1 .. Len(fwd[who]) : fwd[who][k].n >= 1
        /\ Len(fwd[who]) = 2 =>
              fwd[who][2].pos = fwd[who][1].pos
                                + (IF fwd[who][1].ok THEN fwd[who][1].n ELSE 0)

\* C8, witness: a bloom_chat call has re-issued, at the same position, the
\* forward pass that failed in the bloom_chat call before
C8_Witness ==
    /\ Len(fwd.chat) = 2 /\ ~fwd.chat[1].ok /\ fwd.chat[2].ok
    /\ fwd.chat[2].pos = fwd.chat[1].pos
    /\ prevChat # None /\ prevChat.failed /\ call.fn = "chat"

(***************************************************************************)
(* SpecDet: bloom_run calls on one handle while time passes                *)
(***************************************************************************)
DetTexts   == { <<"a">>, <<"a", "a", "a">> }
DetBudgets == {1, 2}

NextDet ==
    \/ /\ calls < MaxCalls
       /\ \E text \in DetTexts, seed \in Seeds, nb \in RunBatches, B \in DetBudgets :
            bloom_run(text, seed, nb, B)
    \/ inference
    \/ Tick

SpecDet == InitGen /\ [][NextDet]_vars

\* C4: a bloom_run call that was given the prompt, the batch size, the budget
\* and the seed of the bloom_run call before it, both without a failed
\* forward pass, produces the text that call produced.
C4_SameArgumentsSameText ==
    ( /\ call.fn = "run" /\ call.pc = "done" /\ ~call.failed
      /\ prevRun # None /\ ~prevRun.failed
      /\ call.text = prevRun.text /\ call.seed = prevRun.seed
      /\ call.n_batch = prevRun.n_batch /\ call.budget = prevRun.budget )
    => call.dst = prevRun.dst

(***************************************************************************)
(* bloom_load / bloom_model_load / bloom_free                              *)
(***************************************************************************)
\* a loader that does not test the magic
MagicAlways(file) == {TRUE}

\* outcomes of "magic != 0x67676d6c" negated: with fewer than four bytes in
\* the file the read leaves magic uninitialized and the test can go either way
MagicPasses(file) ==
    CASE file.magic = "ok"  -> {TRUE}
      [] file.magic = "bad" -> {FALSE}
      [] OTHER              -> BOOLEAN

\* the switch on hparams.f16 finds a weight type
KnownF16(f16) == f16 \in {0, 1, 2, 3}

\* bloom_model_load returns false and bloom_load returns 0; neither frees
\* anything
LoadFails == [ ld EXCEPT !.pc = "failed", !.res = FALSE, !.ret = "null" ]

\* the process is gone: an uncaught exception or a signal inside bloom_load
LoadDies == [ ld EXCEPT !.pc = "dead", !.res = FALSE ]

\* how the record about to be read is cut by the end of the file
CutOf(file, i) ==
    IF i = Len(file.recs) /\ file.end \in {"dims", "name", "data"}
    THEN file.end ELSE "none"

\* the tests of one record, in the order of the loop, without the test on the
\* extents of each dimension
RecordVerdictNoShape(r, cut) ==
    IF cut \in {"dims", "name"} \/ r.name \notin Names THEN "unknown tensor"
    ELSE IF r.ext = "wrong"     THEN "wrong size"
    ELSE IF r.ftype = "unknown" THEN "unknown ftype"
    ELSE IF r.ftype = "other"   THEN "wrong bytes"
    ELSE "copy"

\* the tests of one record, in the order of the loop: the message of the first
\* test that fails, or "copy" when fin.read(tensor->data, ...) is reached.  A
\* name that the file cuts short (or never reaches) is no key of model.tensors.
RecordVerdict(r, cut) ==
    IF cut \in {"dims", "name"} \/ r.name \notin Names THEN "unknown tensor"
    ELSE IF r.ext = "wrong"     THEN "wrong size"
    ELSE IF r.ext = "permuted"  THEN "wrong shape"
    ELSE IF r.ftype = "unknown" THEN "unknown ftype"
    ELSE IF r.ftype = "other"   THEN "wrong bytes"
    ELSE "copy"

LoaderStep == UNCHANGED << session, cache, scratch, clock, call, calls, nfwd,
                           issued, fwd, prevRun, prevChat >>

\* bloom_load up to the call of bloom_model_load
bloom_load(file) ==
    /\ ld.pc = "start"
    /\ ld' = [ ld EXCEPT !.pc = "open", !.file = file, !.obj = "live" ]
    /\ LoaderStep

\* bloom_model_load: std::ifstream(fname), if (!fin) return false
model_open ==
    /\ ld.pc = "open"
    /\ ld' = IF ld.file.open THEN [ ld EXCEPT !.pc = "magic" ] ELSE LoadFails
    /\ LoaderStep

\* bloom_model_load: verify magic
model_magic ==
    /\ ld.pc = "magic"
    /\ \E pass \in MagicPasses(ld.file) :
         ld' = IF pass
               THEN [ ld EXCEPT !.pc = "header",
                                !.stream = IF ld.file.magic = "short" THEN "failed"
                                           ELSE "good" ]
               ELSE LoadFails
    /\ LoaderStep

\* bloom_model_load: hparams, vocab and the switch on hparams.f16.  No read is
\* tested: when the file ends inside the vocabulary, len is read uninitialized
\* and word.resize(len) either throws or goes on with a failed stream.
model_header ==
    /\ ld.pc = "header"
    /\ \E thrown \in IF ld.file.vocab = "cut" \/ ld.stream = "failed"
                      THEN BOOLEAN ELSE {FALSE} :
         ld' = IF thrown THEN LoadDies
               ELSE IF KnownF16(ld.file.f16)
               THEN [ ld EXCEPT !.pc = "arena",
                                !.stream = IF ld.file.vocab = "cut" THEN "failed"
                                           ELSE ld.stream ]
               ELSE LoadFails
    /\ LoaderStep

\* bloom_model_load: model.ctx = ggml_init(params), which can return NULL
model_arena ==
    /\ ld.pc = "arena"
    /\ \E got \in BOOLEAN :
         ld' = IF got THEN [ ld EXCEPT !.pc = "tensors", !.arena = "live" ] ELSE LoadFails
    /\ LoaderStep

\* bloom_model_load: the tensors and the cache are created in the arena and
\* registered by name, the file is closed, opened again and positioned behind
\* the vocabulary
model_tensors ==
    /\ ld.pc = "tensors"
    /\ ld' = [ ld EXCEPT !.pc = "records" ]
    /\ LoaderStep

\* bloom_model_load: one turn of the while (true) loop over the records.  With
\* a failed stream the header fields are read uninitialized and the name stays
\* empty: the name is not found, unless std::string(length, 0) has thrown.
model_record ==
    /\ ld.pc = "records"
    /\ IF ld.stream = "failed"
       THEN \E thrown \in BOOLEAN :
              ld' = IF thrown THEN LoadDies
                    ELSE [ LoadFails EXCEPT !.err = "unknown tensor" ]
       ELSE IF ld.k = Len(ld.file.recs)
       THEN \* fin.eof() behind the three reads of the header
            ld' = [ ld EXCEPT !.pc = "probe", !.res = TRUE ]
       ELSE LET i   == ld.k + 1
                r   == ld.file.recs[i]
                cut == CutOf(ld.file, i)
                v   == RecordVerdict(r, cut)
            IN  ld' = IF v = "copy"
                      THEN [ ld EXCEPT !.k = i,
                                       !.got[r.name] = @ + 1,
                                       !.copied = @ \cup {i},
                                       !.partial = IF cut = "data" THEN @ \cup {r.name}
                                                   ELSE @ ]
                      ELSE [ LoadFails EXCEPT !.k = i, !.err = v ]
    /\ LoaderStep

\* bloom_load behind bloom_model_load: the probe forward pass, which sets
\* mem_per_token, and the history of zeros.  bloom_eval begins with
\* d_key = n_embd/n_head, which no test of n_head precedes: with n_head = 0
\* the division is undefined, the process is stopped by a signal or goes on.
load_probe ==
    /\ ld.pc = "probe"
    /\ \/ /\ ld.file.heads = "zero"
          /\ ld' = LoadDies
          /\ UNCHANGED << session, cache, scratch, nfwd, issued, fwd >>
       \/ \E res \in BOOLEAN, mpt \in MemPerToken :
            /\ bloom_eval("load", mem_per_token, 0, ProbeLen, res)
            /\ mem_per_token' = IF res THEN mpt ELSE mem_per_token
            /\ last_n_tokens' = IF res THEN Zeros ELSE last_n_tokens
            /\ ld' = IF res
                     THEN [ ld EXCEPT !.pc = "loaded", !.ret = "handle",
                                      !.trunc = ( ld.file.heads # "divides" ) ]
                     ELSE [ ld EXCEPT !.pc = "failed", !.ret = "null" ]
            /\ UNCHANGED << n_chars, n_past >>
    /\ UNCHANGED << clock, call, calls, prevRun, prevChat >>

\* bloom_free: delete ctx; bloom_model has no destructor, the arena stays
bloom_free ==
    /\ ld.pc = "loaded"
    /\ Idle
    /\ ld' = [ ld EXCEPT !.pc = "freed", !.obj = "freed" ]
    /\ LoaderStep

InitLoad ==
    /\ mem_per_token = 0
    /\ n_chars = 0
    /\ n_past = 0
    /\ last_n_tokens = <<>>
    /\ memory_k = [ idx \in CacheIdx |-> Unset ]
    /\ memory_v = [ idx \in CacheIdx |-> Unset ]
    /\ buf_size = buf_size0
    /\ buf = "heap"
    /\ nfwd = 0
    /\ issued = [who |-> "none", pos |-> 0, n |-> 0, ok |-> TRUE]
    /\ fwd = NoFwd
    /\ clock = 0
    /\ call = IdleCall
    /\ calls = 0
    /\ prevRun = None
    /\ prevChat = None
    /\ ld = NoLoad
    /\ ctx0 = NoPass
    /\ peer = NoPeer

NextLoad ==
    \/ \E file \in Files : bloom_load(file)
    \/ model_open
    \/ model_magic
    \/ model_header
    \/ model_arena
    \/ model_tensors
    \/ model_record
    \/ load_probe
    \/ bloom_free

SpecLoad == InitLoad /\ [][NextLoad]_vars

\* a handle returned for GoodFile is in a state the generation
\* specifications start from
LoadedIsInitGen == ( ld.pc = "loaded" /\ ld.file = GoodFile ) => InitGen

\* C10: once bloom_load has been called on a file that opens and whose first
\* four bytes are not the magic, the load gets no further than the magic
\* test, the arena is never created, and when the load has ended
\* bloom_model_load has returned false and bloom_load has returned null.
C10_BadMagicFailsWithoutArena ==
    ( ld.pc # "start" /\ ld.file.open /\ ld.file.magic = "bad" )
    => /\ ld.pc \in {"open", "magic", "failed"}
       /\ ld.arena = "none"
       /\ ld.pc = "failed" => ( ~ld.res /\ ld.ret = "null" )

\* C10, witness: the load of a file with a bad magic has failed
C10_Witness ==
    /\ ld.pc = "failed" /\ ld.file.open /\ ld.file.magic = "bad"
    /\ ld.file.f16 = 1 /\ ld.file.recs = GoodBody.recs
    /\ ld.arena = "none" /\ ld.ret = "null"

\* a record names a registered tensor in full, with its extents and its type
Sound(file, i) ==
    /\ CutOf(file, i) \notin {"dims", "name"}
    /\ file.recs[i].name \in Names
    /\ file.recs[i].ext = "ok"
    /\ file.recs[i].ftype = "same"

\* the message of the first test, in the order name, element count, extents,
\* type code, byte size, that a record fails
FirstFailure(file, i) ==
    LET r == file.recs[i]
    IN  CASE CutOf(file, i) \in {"dims", "name"} -> "unknown tensor"
          [] CutOf(file, i) \notin {"dims", "name"} /\ r.name = "x" -> "unknown tensor"
          [] Sound(file, i) -> "none"
          [] OTHER ->
               CASE r.ext = "wrong"     -> "wrong size"
                 [] r.ext = "permuted"  -> "wrong shape"
                 [] r.ext = "ok" /\ r.ftype = "unknown" -> "unknown ftype"
                 [] r.ext = "ok" /\ r.ftype = "other"   -> "wrong bytes"

C12_CutDataFails ==
    ( ld.file.end = "data" /\ ld.pc # "start" )
    => ( ~ld.res /\ ld.ret # "handle" /\ ld.partial = {} )

\* C13: a file whose n_head is 0 or does not divide n_embd is rejected by the
\* load: bloom_model_load does not return true for it, and no forward pass
\* runs with n_embd/n_head rounded down.
C13_HeadsDivideOrRejected ==
    ( ld.file.heads # "divides" /\ ld.pc # "start" )
    => ( ~ld.res /\ ld.ret # "handle" /\ ~ld.trunc )

\* C15: an arena that was created does not outlive its session: once
\* bloom_free has returned the arena is freed, and once a load that had
\* created the arena has returned null the arena and the session object are
\* freed.
C15_ArenaReleased ==
    /\ ld.pc = "freed" => ld.arena = "freed"
    /\ ( ld.pc = "failed" /\ ld.arena # "none" )
       => ( ld.arena = "freed" /\ ld.obj = "freed" )

(***************************************************************************)
(* SpecEval: bloom_eval called with any position and any length that fit   *)
(* the context, on a loaded session                                        *)
(***************************************************************************)
eval_any ==
    /\ nfwd < MaxFwd
    /\ \E p \in 0 .. n_ctx, N \in 0 .. n_ctx, res \in BOOLEAN :
         /\ p + N <= n_ctx
         /\ bloom_eval("any", mem_per_token, p, N, res)
    /\ UNCHANGED << session, clock, call, calls, prevRun, prevChat, ld >>

NextEval == eval_any

SpecEval == InitGen /\ [][NextEval]_vars

\* the float e of cache position pos of layer il, in memory_k and memory_v
Cell(il, pos, e) == (il * n_ctx + pos) * n_embd + e

Layers    == 0 .. (n_layer - 1)
Positions == 0 .. (n_ctx - 1)
Floats    == 0 .. (n_embd - 1)

\* the step is a forward pass that returned true and fits the context
EvalFits == nfwd' = nfwd + 1 /\ issued'.ok /\ issued'.pos + issued'.n <= n_ctx

\* a forward pass at position p with n tokens has written, in every layer of
\* memory_k and memory_v, the positions p .. p+n-1 and has left every other
\* position as it was
EvalFrame ==
    \A il \in Layers, pos \in Positions, e \in Floats :
        IF issued'.pos <= pos /\ pos < issued'.pos + issued'.n
        THEN /\ memory_k'[Cell(il, pos, e)] = << issued'.who, nfwd' >>
             /\ memory_v'[Cell(il, pos, e)] = << issued'.who, nfwd' >>
        ELSE /\ memory_k'[Cell(il, pos, e)] = memory_k[Cell(il, pos, e)]
             /\ memory_v'[Cell(il, pos, e)] = memory_v[Cell(il, pos, e)]

\* of the last two forward passes the second started where the first ended,
\* and both returned true
Sequential ==
    /\ Len(fwd.any) = 2 /\ fwd.any[1].ok /\ fwd.any[2].ok
    /\ fwd.any[2].pos = fwd.any[1].pos + fwd.any[1].n

\* the positions p .. p+n1+n2-1 hold what those two forward passes wrote
Populated ==
    \A il \in Layers, pos \in Positions, e \in Floats :
        /\ ( fwd.any[1].pos <= pos /\ pos < fwd.any[2].pos )
              => /\ memory_k[Cell(il, pos, e)] = << "any", nfwd - 1 >>
                 /\ memory_v[Cell(il, pos, e)] = << "any", nfwd - 1 >>
        /\ ( fwd.any[2].pos <= pos /\ pos < fwd.any[2].pos + fwd.any[2].n )
              => /\ memory_k[Cell(il, pos, e)] = << "any", nfwd >>
                 /\ memory_v[Cell(il, pos, e)] = << "any", nfwd >>

\* C9: a forward pass with p + n <= n_ctx that returns true writes, in each
\* layer of the key memory and of the value memory, exactly the positions
\* p .. p+n-1 and changes no other position; and after two such passes of n1
\* and n2 tokens at p and p+n1 the positions p .. p+n1+n2-1 hold what the two
\* passes wrote.
C9_StoreWritesExactlyItsPositions ==
    /\ [][ EvalFits => EvalFrame ]_vars
    /\ [] ( Sequential => Populated )

\* C9, witness: two forward passes one behind the other, the first behind
\* position 0, and a position in front of them still holds the probe's store
C9_Witness ==
    /\ Sequential
    /\ fwd.any[1].pos = 1 /\ fwd.any[1].n = 1 /\ fwd.any[2].n = 2
    /\ memory_k[Cell(n_layer - 1, 0, 0)] = << "load", 1 >>
    /\ memory_v[Cell(n_layer - 1, 3, 0)] = << "any", nfwd >>

\* C16: a forward pass that returns false leaves every element of memory_k
\* and of memory_v as it was when the pass was called.
C16_FailureLeavesCache ==
    [][ ( nfwd' = nfwd + 1 /\ ~issued'.ok )
        => ( memory_k' = memory_k /\ memory_v' = memory_v ) ]_vars

\* C16, witness: a forward pass has returned false at a position that the
\* forward pass before it had written, and the cache still holds what that
\* pass wrote
C16_Witness ==
    /\ ~issued.ok /\ issued.who = "any" /\ issued.n >= 1
    /\ issued.pos + issued.n <= n_ctx
    /\ Len(fwd.any) = 2 /\ fwd.any[1].ok
    /\ \A il \in Layers :
         /\ memory_k[Cell(il, issued.pos, 0)] = << "any", nfwd - 1 >>
         /\ memory_v[Cell(il, issued.pos, 0)] = << "any", nfwd - 1 >>


(***************************************************************************)
(* SpecTwo: forward passes of two handles of one process, on two threads   *)
(***************************************************************************)
TwoPositions == {0, 2}
TwoLengths   == {1, 2}

MptOf(h) == IF h = "h1" THEN mem_per_token ELSE peer.mem_per_token

Inside(h) == ctx0[h].pc = "in"

\* bloom_eval of handle h up to ggml_init(params): the test and the realloc of
\* the static buf, and the context built on { buf_size, buf }.  A pass of
\* another handle that holds the static block has it freed or moved by the
\* realloc, and written by this pass otherwise.
eval_enter(h) ==
    /\ ctx0[h].pc = "out"
    /\ nfwd < MaxFwd
    /\ \E p \in TwoPositions, N \in TwoLengths, res \in BOOLEAN :
         LET grow == NeedRealloc(MptOf(h), N)
             mine == IF grow THEN (IF res THEN "heap" ELSE "null") ELSE buf
             size == IF grow THEN NewBufSize(MptOf(h), N) ELSE buf_size
             held == { g \in Handles \ {h} : Inside(g) /\ ctx0[g].mem_buffer = "heap" }
         IN  /\ res \in EvalResults(MptOf(h), N)
             /\ buf_size' = size
             /\ buf' = mine
             /\ nfwd' = nfwd + 1
             /\ IF res
                THEN /\ ctx0' = [ g \in Handles |->
                                    IF g = h
                                    THEN [ pc |-> "in", mem_buffer |-> mine,
                                           mem_size |-> size, pos |-> p, n |-> N,
                                           stamp |-> nfwd + 1,
                                           torn |-> ( mine = "heap" /\ held # {} ) ]
                                    ELSE IF g \in held /\ ( grow \/ buf = "heap" )
                                    THEN [ ctx0[g] EXCEPT !.torn = TRUE ]
                                    ELSE ctx0[g] ]
                     /\ UNCHANGED << issued, fwd >>
                ELSE /\ issued' = [who |-> h, pos |-> p, n |-> N, ok |-> FALSE]
                     /\ fwd' = [fwd EXCEPT !.any = Log(@, [pos |-> p, n |-> N, ok |-> FALSE])]
                     /\ UNCHANGED ctx0
    /\ UNCHANGED << session, cache, peer, clock, call, calls, prevRun, prevChat, ld >>

\* bloom_eval of handle h from the graph to ggml_free(ctx0) and return true:
\* the cpy nodes store into the cache of h.  With a scratch block that another
\* pass wrote, or that realloc took away, the stored values are not those of
\* this pass, or the process is stopped.
eval_leave(h) ==
    /\ Inside(h)
    /\ \E fate \in IF ctx0[h].torn THEN {"alive", "dead"} ELSE {"alive"} :
         LET P     == ctx0[h]
             stamp == IF P.torn THEN << "torn", P.stamp >> ELSE << h, P.stamp >>
         IN  IF fate = "dead"
             THEN /\ ctx0' = [ g \in Handles |-> [ ctx0[g] EXCEPT !.pc = "dead" ] ]
                  /\ UNCHANGED << cache, peer, issued, fwd >>
             ELSE /\ ctx0' = [ ctx0 EXCEPT ![h] = OutPass ]
                  /\ memory_k' = IF h = "h1" THEN StoreKV(memory_k, P.pos, P.n, stamp)
                                 ELSE memory_k
                  /\ memory_v' = IF h = "h1" THEN StoreKV(memory_v, P.pos, P.n, stamp)
                                 ELSE memory_v
                  /\ peer' = IF h = "h1" THEN peer
                             ELSE [ peer EXCEPT
                                      !.memory_k = StoreKV(@, P.pos, P.n, stamp),
                                      !.memory_v = StoreKV(@, P.pos, P.n, stamp) ]
                  /\ issued' = [who |-> h, pos |-> P.pos, n |-> P.n, ok |-> TRUE]
                  /\ fwd' = [fwd EXCEPT !.any = Log(@, [pos |-> P.pos, n |-> P.n, ok |-> TRUE])]
    /\ UNCHANGED << session, buf_size, buf, nfwd, clock, call, calls, prevRun,
                    prevChat, ld >>

InitTwo ==
    /\ \E mpt \in MemPerToken : Loaded(mpt) /\ peer = LoadedPeer(mpt)
    /\ clock = 0
    /\ call = IdleCall
    /\ calls = 0
    /\ prevRun = None
    /\ prevChat = None
    /\ ld = LoadedLd
    /\ ctx0 = NoPass

NextTwo == \E h \in Handles : eval_enter(h) \/ eval_leave(h)

SpecTwo == InitTwo /\ [][NextTwo]_vars

\* C14: two forward passes of different handles that are under way at the
\* same time never run on the same scratch block: they were not both handed
\* the block of the static buf at the same size.
C14_ScratchPerSession ==
    \A g \in Handles, h \in Handles :
        ( g # h /\ Inside(g) /\ Inside(h) )
        => ~( /\ ctx0[g].mem_buffer = "heap"
              /\ ctx0[h].mem_buffer = "heap"
              /\ ctx0[g].mem_size = ctx0[h].mem_size )


(***************************************************************************)
(* Claims about batches, the history, cache positions and sampling         *)
(***************************************************************************)
\* C17: a forward pass of bloom_run over tokens of a prompt that fits the
\* context has at least one and at most n_batch tokens.
C17_BatchWithinBatchSize ==
    ( /\ call.fn = "run" /\ fwd.run # <<>> /\ issued.who = "run" /\ issued.ok
      /\ call.budget >= 0 /\ Len(call.embd_inp) <= n_ctx
      /\ issued.pos + issued.n <= Len(call.embd_inp) )
    => ( 1 <= issued.n /\ issued.n <= call.n_batch )

\* the step of chat before this state was a pass of the ingest loop that
\* returned true
AfterIngest ==
    /\ call.fn = "chat" /\ call.pc \in {"ingest", "decode"} /\ call.sampled = <<>>
    /\ issued.who = "chat" /\ issued.ok /\ issued.n >= 1
    /\ issued.pos >= call.n_past_init /\ issued.pos + issued.n = n_past

\* C18: behind a pass of the ingest loop of chat the history has its fixed
\* length and its newest entries are the tokens of the batch that pass
\* evaluated, in order.
C18_HistoryHoldsBatch ==
    AfterIngest
    => /\ Len(last_n_tokens) = repeat_last_n
       /\ LET m    == Min(issued.n, repeat_last_n)
              done == n_past - call.n_past_init
          IN  \A j \in 1 .. m :
                last_n_tokens[repeat_last_n - m + j] = call.embd_inp[done - m + j]

\* C19: a forward pass of bloom_run on a handle writes no cache position below
\* the n_past that bloom_chat calls have left in the handle.
C19_RunWritesBehindChat ==
    ( issued.who = "run" /\ issued.ok /\ issued.n >= 1 ) => issued.pos >= n_past

\* C20: a bloom_run call with a budget of at least 0 has sampled a token only
\* when a forward pass of the call has filled logits.
C20_SampledFromLogits ==
    ( call.fn = "run" /\ call.budget >= 0 /\ call.sampled # <<>> ) => call.logits

\* C21: when a bloom_chat call that was handed a text at least as
\* long as n_chars has returned 0, n_chars is the length of the text in the
\* output buffer.
C21_CountIsOutputLength ==
    ( /\ call.fn = "chat" /\ call.pc = "done" /\ call.ret = SuccessRet
      /\ call.n_chars_init <= Len(call.text) )
    => n_chars = Len(call.dst)


\* C22: when bloom_model_load has returned true, every tensor of
\* model.tensors has had its data read from exactly one record of the file.
C22_EveryTensorLoadedOnce ==
    ( ld.res /\ ld.stream = "good" ) => \A n \in Names : ld.got[n] = 1

====
